---- MODULE Spec2Model ----
(***************************************************************************)
(* Model of the two cleaning scripts of Lab1_DS:                           *)
(*   src/src/excel_a_csv.py          (IMPORTACION + CONSUMO -> three CSVs)  *)
(*   src/src/actualiza_datos_2025.py (IMPORTACION 2025 -> one CSV)          *)
(*                                                                         *)
(* Text is a sequence of one-character strings, so that strip, split,      *)
(* lower, startswith, replace and the numeric parse are computed character *)
(* by character.  A spreadsheet cell, a column label and a table value are *)
(* records [k, s, n]: k is the Python type ("str", "num", "date", "nan",   *)
(* "nat"), s the text of a str, n the number of a num or the month number  *)
(* of a date (year * 12 + month - 1).                                      *)
(***************************************************************************)
EXTENDS Integers, Sequences, FiniteSets, TLC

VARIABLES
    col,         \* normaliza_col: the label given
    norm_out,    \* normaliza_col: the results of its successive applications
    raw,         \* detecta_header: the raw table given
    header_row,  \* detecta_header: its outcome
    sheet,       \* cleaners: the sheet of the workbook being cleaned
    script,      \* cleaners: which cleaner ran ("none" before the call)
    res,         \* cleaners: the outcome of the call
    pc,          \* excel_a_csv.main: position in main
    imp,         \* excel_a_csv.main: outcome of cleaning IMPORTACION
    con,         \* excel_a_csv.main: outcome of cleaning CONSUMO
    combined,    \* excel_a_csv.main: the merged table
    files        \* excel_a_csv.main: the files written so far, in order

vars == <<col, norm_out, raw, header_row, sheet, script, res,
          pc, imp, con, combined, files>>

----------------------------------------------------------------------------
(* Values *)

Str(s) == [k |-> "str", s |-> s, n |-> 0]
Num(n) == [k |-> "num", s |-> <<>>, n |-> n]
Date(d) == [k |-> "date", s |-> <<>>, n |-> d]
NaN == [k |-> "nan", s |-> <<>>, n |-> 0]
NaT == [k |-> "nat", s |-> <<>>, n |-> 0]
None == [k |-> "none", s |-> <<>>, n |-> 0]

isinstance_str(v) == v.k = "str"

----------------------------------------------------------------------------
(* Python str methods, on sequences of characters *)

Whitespace == {" ", "\n", "\t"}

UpperCase == <<"A", "B", "C", "D", "E", "F", "G", "H", "I", "J", "K", "L", "M",
               "N", "O", "P", "Q", "R", "S", "T", "U", "V", "W", "X", "Y", "Z">>

LowerCase == <<"a", "b", "c", "d", "e", "f", "g", "h", "i", "j", "k", "l", "m",
               "n", "o", "p", "q", "r", "s", "t", "u", "v", "w", "x", "y", "z">>

lower_char(c) ==
    IF \E i \in 1..Len(UpperCase) : UpperCase[i] = c
    THEN LowerCase[CHOOSE i \in 1..Len(UpperCase) : UpperCase[i] = c]
    ELSE c

str_lower(s) == [i \in 1..Len(s) |-> lower_char(s[i])]

RECURSIVE str_lstrip(_)
str_lstrip(s) ==
    IF s # <<>> /\ Head(s) \in Whitespace THEN str_lstrip(Tail(s)) ELSE s

RECURSIVE str_rstrip(_)
str_rstrip(s) ==
    IF s # <<>> /\ s[Len(s)] \in Whitespace
    THEN str_rstrip(SubSeq(s, 1, Len(s) - 1))
    ELSE s

str_strip(s) == str_rstrip(str_lstrip(s))

\* s.replace(a, b) for single characters a and b
str_replace_char(s, a, b) == [i \in 1..Len(s) |-> IF s[i] = a THEN b ELSE s[i]]

\* s.replace(a, "") for a single character a
RECURSIVE str_remove_char(_, _)
str_remove_char(s, a) ==
    IF s = <<>> THEN <<>>
    ELSE IF Head(s) = a THEN str_remove_char(Tail(s), a)
    ELSE <<Head(s)>> \o str_remove_char(Tail(s), a)

str_startswith(s, p) == Len(s) >= Len(p) /\ SubSeq(s, 1, Len(p)) = p

\* p in s
str_contains(s, p) ==
    \E i \in 1..(Len(s) - Len(p) + 1) : SubSeq(s, i, i + Len(p) - 1) = p

\* s.replace(p, ""): non-overlapping occurrences of p, left to right
RECURSIVE str_remove(_, _)
str_remove(s, p) ==
    IF s = <<>> THEN <<>>
    ELSE IF str_startswith(s, p) THEN str_remove(SubSeq(s, Len(p) + 1, Len(s)), p)
    ELSE <<Head(s)>> \o str_remove(Tail(s), p)

\* s.split(): the maximal runs of non-whitespace characters
RECURSIVE str_split_from(_, _)
str_split_from(s, word) ==
    IF s = <<>> THEN (IF word = <<>> THEN <<>> ELSE <<word>>)
    ELSE IF Head(s) \in Whitespace
         THEN (IF word = <<>> THEN <<>> ELSE <<word>>) \o str_split_from(Tail(s), <<>>)
         ELSE str_split_from(Tail(s), Append(word, Head(s)))

str_split(s) == str_split_from(s, <<>>)

\* sep.join(words)
RECURSIVE str_join(_, _)
str_join(sep, words) ==
    IF words = <<>> THEN <<>>
    ELSE IF Len(words) = 1 THEN words[1]
    ELSE words[1] \o sep \o str_join(sep, Tail(words))

----------------------------------------------------------------------------
(* normaliza_col *)

\* the normalizer without the strip/split/join line
normaliza_col_sin_colapsar(c) ==
    IF ~isinstance_str(c) THEN c
    ELSE Str(str_lower(str_replace_char(c.s, "\n", " ")))

normaliza_col(c) ==
    IF ~isinstance_str(c) THEN c
    ELSE LET c1 == str_replace_char(c.s, "\n", " ")
             c2 == str_join(<<" ">>, str_split(str_strip(c1)))
         IN  Str(str_lower(c2))

----------------------------------------------------------------------------
(* Conversions between text, numbers and dates (pandas astype(str),         *)
(* to_numeric and to_datetime, both with errors="coerce")                   *)

Digits == <<"0", "1", "2", "3", "4", "5", "6", "7", "8", "9">>

IsDigit(c) == \E i \in 1..Len(Digits) : Digits[i] = c

DigitValue(c) == (CHOOSE i \in 1..Len(Digits) : Digits[i] = c) - 1

RECURSIVE nat_to_str(_)
nat_to_str(n) ==
    IF n < 10 THEN <<Digits[n + 1]>>
    ELSE nat_to_str(n \div 10) \o <<Digits[(n % 10) + 1]>>

int_to_str(n) == IF n < 0 THEN <<"-">> \o nat_to_str(-n) ELSE nat_to_str(n)

RECURSIVE str_to_nat(_, _)
str_to_nat(s, acc) ==
    IF s = <<>> THEN acc ELSE str_to_nat(Tail(s), 10 * acc + DigitValue(Head(s)))

AllDigits(s) == s # <<>> /\ \A i \in 1..Len(s) : IsDigit(s[i])

two_digits(n) == IF n < 10 THEN <<"0">> \o nat_to_str(n) ELSE nat_to_str(n)

\* str(Timestamp) of the first day of a month: "yyyy-mm-01 00:00:00"
date_to_str(d) ==
    nat_to_str(d \div 12) \o <<"-">> \o two_digits((d % 12) + 1)
        \o <<"-", "0", "1", " ", "0", "0", ":", "0", "0", ":", "0", "0">>

\* Series.astype(str), one element
astype_str(v) ==
    CASE v.k = "str" -> v.s
      [] v.k = "num" -> int_to_str(v.n)
      [] v.k = "date" -> date_to_str(v.n)
      [] v.k = "nan" -> <<"n", "a", "n">>
      [] OTHER -> <<"N", "a", "T">>

\* pd.to_numeric(errors="coerce"), one text element: an optional sign and
\* digits give the number, anything else (also "" and "nan") gives NaN
to_numeric(s) ==
    IF AllDigits(s) THEN Num(str_to_nat(s, 0))
    ELSE IF s # <<>> /\ Head(s) = "-" /\ AllDigits(Tail(s)) THEN Num(-str_to_nat(Tail(s), 0))
    ELSE NaN

\* the text dates of the model are "yyyy-mm"
IsYearMonth(s) ==
    /\ Len(s) = 7
    /\ AllDigits(SubSeq(s, 1, 4))
    /\ s[5] = "-"
    /\ AllDigits(SubSeq(s, 6, 7))
    /\ str_to_nat(SubSeq(s, 6, 7), 0) \in 1..12

\* pd.to_datetime(errors="coerce"), one element: a date cell is itself, a text
\* that reads as a date is that date, a number counts nanoseconds from the
\* epoch, anything else is NaT
to_datetime(v) ==
    CASE v.k = "date" -> v
      [] v.k = "str" /\ IsYearMonth(v.s) ->
            Date(12 * str_to_nat(SubSeq(v.s, 1, 4), 0) + str_to_nat(SubSeq(v.s, 6, 7), 0) - 1)
      [] v.k = "num" -> Date(12 * 1970)
      [] OTHER -> NaT

notna(v) == v.k \notin {"nan", "nat"}

fillna0(v) == IF notna(v) THEN v ELSE Num(0)

----------------------------------------------------------------------------
(* Reading a sheet: a sheet is a sequence of rows of cells, all of one width *)

DataFrame(columns, rows) == [columns |-> columns, rows |-> rows]

\* xls.parse(sheet, header=None, dtype=str): every non-empty cell as text
parse_raw(sh) ==
    [i \in 1..Len(sh) |->
        [j \in 1..Len(sh[i]) |->
            IF sh[i][j].k = "nan" THEN NaN ELSE Str(astype_str(sh[i][j]))]]

\* a header cell as a column label: text and numbers are kept, an empty cell
\* is named "Unnamed: j" (the header rows of the model have no two equal
\* cells, so no label is renamed for being a duplicate)
label_of(v, j) ==
    IF v.k = "nan"
    THEN Str(<<"U", "n", "n", "a", "m", "e", "d", ":", " ">> \o nat_to_str(j - 1))
    ELSE v

\* xls.parse(sheet, header=h), h counted from zero
parse_header(sh, h) ==
    DataFrame([j \in 1..Len(sh[h + 1]) |-> label_of(sh[h + 1][j], j)],
              SubSeq(sh, h + 2, Len(sh)))

----------------------------------------------------------------------------
(* detecta_header *)

L_fecha == <<"f", "e", "c", "h", "a">>

Ok(i) == [kind |-> "ok", i |-> i]
HeaderNotFound == [kind |-> "HeaderNotFound", i |-> -1]

\* the test by containment instead of equality
row_contains_fecha(row) ==
    \E j \in 1..Len(row) : str_contains(str_lower(str_strip(astype_str(row[j]))), L_fecha)

\* row.astype(str).str.strip().str.lower().eq("fecha").any()
row_has_fecha(row) ==
    \E j \in 1..Len(row) : str_lower(str_strip(astype_str(row[j]))) = L_fecha

\* the loop of detecta_header from row i (counted from one) downwards
RECURSIVE detecta_header_from(_, _)
detecta_header_from(df, i) ==
    IF i > Len(df) THEN HeaderNotFound
    ELSE IF row_has_fecha(df[i]) THEN Ok(i - 1)
    ELSE detecta_header_from(df, i + 1)

detecta_header(df) == detecta_header_from(df, 1)

----------------------------------------------------------------------------
(* The cleaners *)

L_gasolina_regular == <<"g", "a", "s", "o", "l", "i", "n", "a", " ", "r", "e", "g", "u", "l", "a", "r">>
L_gasolina_superior == <<"g", "a", "s", "o", "l", "i", "n", "a", " ", "s", "u", "p", "e", "r", "i", "o", "r">>
L_diesel_alto_azufre == <<"d", "i", "e", "s", "e", "l", " ", "a", "l", "t", "o", " ", "a", "z", "u", "f", "r", "e">>
L_diesel_bajo_azufre == <<"d", "i", "e", "s", "e", "l", " ", "b", "a", "j", "o", " ", "a", "z", "u", "f", "r", "e">>
L_diesel_ultra_bajo_azufre == <<"d", "i", "e", "s", "e", "l", " ", "u", "l", "t", "r", "a", " ", "b", "a", "j", "o", " ", "a", "z", "u", "f", "r", "e">>
P_gasolina_super == <<"g", "a", "s", "o", "l", "i", "n", "a", " ", "s", "u", "p", "e", "r">>
P_gasolina_s == <<"g", "a", "s", "o", "l", "i", "n", "a", " ", "s">>
P_rior == <<"r", "i", "o", "r">>
P_diesel_alto == <<"d", "i", "e", "s", "e", "l", " ", "a", "l", "t", "o">>

\* the final export labels are never taken apart: they are whole words
Regular_Imp == Str(<<"Regular_Imp">>)
Superior_Imp == Str(<<"Superior_Imp">>)
Diesel_Imp == Str(<<"Diesel_Imp">>)
Regular_Con == Str(<<"Regular_Con">>)
Superior_Con == Str(<<"Superior_Con">>)
Diesel_Con == Str(<<"Diesel_Con">>)

requeridas_hoja ==
    <<Str(L_fecha), Str(L_gasolina_regular), Str(L_gasolina_superior),
      Str(L_diesel_alto_azufre)>>

requeridas_importacion ==
    <<Str(L_fecha), Str(L_gasolina_regular), Str(L_gasolina_superior),
      Str(L_diesel_bajo_azufre), Str(L_diesel_ultra_bajo_azufre)>>

\* outcomes of a cleaner: a table, or the exception that ended it
Table(df) == [kind |-> "ok", faltantes |-> <<>>, columns |-> df.columns, rows |-> df.rows]
Raise(kind) == [kind |-> kind, faltantes |-> <<>>, columns |-> <<>>, rows |-> <<>>]
MissingColumns(f) == [kind |-> "MissingColumns", faltantes |-> f, columns |-> <<>>, rows |-> <<>>]
NotRun == Raise("none")

\* the value renmap gives a normalized label, the label itself when renmap has
\* no entry for it
renmap(c) ==
    IF str_startswith(c.s, P_gasolina_super) THEN Str(L_gasolina_superior)
    ELSE IF str_startswith(c.s, P_gasolina_s) /\ str_contains(c.s, P_rior)
         THEN Str(L_gasolina_superior)
    ELSE IF str_startswith(c.s, L_gasolina_regular) THEN Str(L_gasolina_regular)
    ELSE IF str_startswith(c.s, P_diesel_alto) THEN Str(L_diesel_alto_azufre)
    ELSE c

in_columns(c, columns) == \E j \in 1..Len(columns) : columns[j] = c

\* [c for c in requeridas if c not in df.columns]
faltantes(requeridas, columns) ==
    LET RECURSIVE missing_from(_)
        missing_from(i) ==
            IF i > Len(requeridas) THEN <<>>
            ELSE (IF in_columns(requeridas[i], columns) THEN <<>> ELSE <<requeridas[i]>>)
                 \o missing_from(i + 1)
    IN  missing_from(1)

\* the positions df[labels] takes: for each label in turn, every column that
\* carries it, left to right
RECURSIVE positions_of(_, _, _)
positions_of(columns, c, j) ==
    IF j > Len(columns) THEN <<>>
    ELSE (IF columns[j] = c THEN <<j>> ELSE <<>>) \o positions_of(columns, c, j + 1)

RECURSIVE positions_of_all(_, _)
positions_of_all(columns, labels) ==
    IF labels = <<>> THEN <<>>
    ELSE positions_of(columns, Head(labels), 1) \o positions_of_all(columns, Tail(labels))

\* df[labels]
select_columns(df, labels) ==
    LET pos == positions_of_all(df.columns, labels)
    IN  DataFrame([p \in 1..Len(pos) |-> df.columns[pos[p]]],
                  [i \in 1..Len(df.rows) |-> [p \in 1..Len(pos) |-> df.rows[i][pos[p]]]])

count_label(columns, c) == Cardinality({j \in 1..Len(columns) : columns[j] = c})

\* df.dropna(): a row with any empty cell is dropped, not only one without date
RECURSIVE filter_dropna(_)
filter_dropna(rows) ==
    IF rows = <<>> THEN <<>>
    ELSE (IF \A j \in 1..Len(Head(rows)) : notna(Head(rows)[j])
          THEN <<Head(rows)>> ELSE <<>>) \o filter_dropna(Tail(rows))

\* df[df["fecha"].notna()], the date in the first column
RECURSIVE filter_notna(_)
filter_notna(rows) ==
    IF rows = <<>> THEN <<>>
    ELSE (IF notna(Head(rows)[1]) THEN <<Head(rows)>> ELSE <<>>) \o filter_notna(Tail(rows))

\* a sort that leaves the rows as they are
no_sort(rows) == {rows}

\* rows without its first occurrence of r
RECURSIVE remove_one(_, _)
remove_one(rows, r) ==
    IF rows = <<>> THEN <<>>
    ELSE IF Head(rows) = r THEN Tail(rows)
    ELSE <<Head(rows)>> \o remove_one(Tail(rows), r)

\* df.sort_values("fecha"), the date in the first column: the sort is not
\* stable, so every ordering of the rows by ascending date is a possible result
RECURSIVE sort_values(_)
sort_values(rows) ==
    IF rows = <<>> THEN {<<>>}
    ELSE LET least == CHOOSE m \in {rows[i][1].n : i \in 1..Len(rows)} :
                          \A i \in 1..Len(rows) : m <= rows[i][1].n
             firsts == {rows[i] : i \in {i \in 1..Len(rows) : rows[i][1].n = least}}
         IN  UNION {{<<r>> \o rest : rest \in sort_values(remove_one(rows, r))} : r \in firsts}

\* .astype(str).str.replace(",", "").str.replace(" ", "").str.replace("--", "")
\* and pd.to_numeric(errors="coerce"), one element
limpia_valor(v) ==
    to_numeric(str_remove(str_remove_char(str_remove_char(astype_str(v), ","), " "), <<"-", "-">>))

\* from the restriction to the required columns to the numeric conversion:
\* the same statements in both cleaners.  Two columns with one label make
\* df[label] a table instead of a column: pd.to_datetime then raises
\* ValueError, and .str raises AttributeError.
limpia_columnas(df, requeridas) ==
    LET sel == select_columns(df, requeridas)
    IN  IF count_label(sel.columns, requeridas[1]) > 1 THEN {Raise("ValueError")}
        ELSE LET dated == [i \in 1..Len(sel.rows) |->
                              [sel.rows[i] EXCEPT ![1] = to_datetime(sel.rows[i][1])]]
                 kept == filter_notna(dated)
             IN  IF \E q \in 2..Len(requeridas) : count_label(sel.columns, requeridas[q]) > 1
                 THEN {Raise("AttributeError")}
                 ELSE {Table(DataFrame(sel.columns,
                          [i \in 1..Len(sorted) |->
                              [j \in 1..Len(sorted[i]) |->
                                  IF j = 1 THEN sorted[i][j] ELSE limpia_valor(sorted[i][j])]]))
                       : sorted \in sort_values(kept)}

\* the columns of the sheet after normaliza_col
columnas_normalizadas(sh, h) ==
    LET df == parse_header(sh, h)
    IN  [j \in 1..Len(df.columns) |-> normaliza_col(df.columns[j])]

\* df.rename(columns=renmap)
columnas_renombradas(cols) == [j \in 1..Len(cols) |-> renmap(cols[j])]

\* excel_a_csv.carga_y_limpia_hoja: the set of its possible outcomes
carga_y_limpia_hoja(sh) ==
    LET h == detecta_header(parse_raw(sh))
    IN  IF h.kind # "ok" THEN {Raise("HeaderNotFound")}
        ELSE LET df == parse_header(sh, h.i)
                 cols == columnas_normalizadas(sh, h.i)
             IN  IF \E j \in 1..Len(cols) : ~isinstance_str(cols[j])
                 THEN {Raise("AttributeError")}   \* c_norm.startswith on a non-str
                 ELSE LET renamed == columnas_renombradas(cols)
                          falt == faltantes(requeridas_hoja, renamed)
                      IN  IF falt # <<>> THEN {MissingColumns(falt)}
                          ELSE limpia_columnas(DataFrame(renamed, df.rows), requeridas_hoja)

\* the diesel total without fillna: a missing operand makes the sum missing
diesel_total_sin_fillna(a, b) ==
    IF notna(a) /\ notna(b) THEN Num(a.n + b.n) ELSE NaN

\* df["diesel bajo azufre"].fillna(0) + df["diesel ultra bajo azufre"].fillna(0)
diesel_total(a, b) == Num(fillna0(a).n + fillna0(b).n)

\* actualiza_datos_2025.carga_y_limpia_importacion: the set of its possible
\* outcomes
carga_y_limpia_importacion(sh) ==
    LET h == detecta_header(parse_raw(sh))
    IN  IF h.kind # "ok" THEN {Raise("HeaderNotFound")}
        ELSE LET df == parse_header(sh, h.i)
                 cols == columnas_normalizadas(sh, h.i)
                 falt == faltantes(requeridas_importacion, cols)
             IN  IF falt # <<>> THEN {MissingColumns(falt)}
                 ELSE {IF t.kind # "ok" THEN t
                       ELSE Table(DataFrame(<<Str(L_fecha), Regular_Imp, Superior_Imp, Diesel_Imp>>,
                                [i \in 1..Len(t.rows) |->
                                    <<t.rows[i][1], t.rows[i][2], t.rows[i][3],
                                      diesel_total(t.rows[i][4], t.rows[i][5])>>]))
                       : t \in limpia_columnas(DataFrame(cols, df.rows), requeridas_importacion)}

----------------------------------------------------------------------------
(* excel_a_csv.main: the merge *)

\* DataFrame.rename(columns=...) of a cleaned table to its origin's labels
rename_origin(t, regular, superior, diesel) ==
    DataFrame(<<Str(L_fecha), regular, superior, diesel>>, t.rows)

\* pd.merge(left, right, on="fecha", how="inner"): only the dates of both
merge_inner(left, right) ==
    LET RECURSIVE matches(_, _)
        matches(l, j) ==
            IF j > Len(right.rows) THEN <<>>
            ELSE (IF right.rows[j][1] = l[1] THEN <<l \o Tail(right.rows[j])>> ELSE <<>>)
                 \o matches(l, j + 1)
        RECURSIVE from_left(_)
        from_left(i) ==
            IF i > Len(left.rows) THEN <<>>
            ELSE matches(left.rows[i], 1) \o from_left(i + 1)
    IN  DataFrame(left.columns \o Tail(right.columns), from_left(1))

\* pd.merge(left, right, on="fecha", how="outer"): each left row with each
\* right row of its date, a row without partner with missing values on the
\* other side
merge_outer(left, right) ==
    LET RECURSIVE matches(_, _)
        matches(l, j) ==
            IF j > Len(right.rows) THEN <<>>
            ELSE (IF right.rows[j][1] = l[1] THEN <<l \o Tail(right.rows[j])>> ELSE <<>>)
                 \o matches(l, j + 1)
        RECURSIVE from_left(_)
        from_left(i) ==
            IF i > Len(left.rows) THEN <<>>
            ELSE (IF matches(left.rows[i], 1) # <<>> THEN matches(left.rows[i], 1)
                  ELSE <<left.rows[i] \o [q \in 1..(Len(right.columns) - 1) |-> NaN]>>)
                 \o from_left(i + 1)
        RECURSIVE only_right(_)
        only_right(j) ==
            IF j > Len(right.rows) THEN <<>>
            ELSE (IF \E i \in 1..Len(left.rows) : left.rows[i][1] = right.rows[j][1] THEN <<>>
                  ELSE << <<right.rows[j][1]>> \o [q \in 1..(Len(left.columns) - 1) |-> NaN]
                          \o Tail(right.rows[j]) >>)
                 \o only_right(j + 1)
    IN  DataFrame(left.columns \o Tail(right.columns), from_left(1) \o only_right(1))

----------------------------------------------------------------------------
(* Inputs *)

MaxLen == 3
MaxRawRows == 2
MaxRows == 2

SeqsUpTo(S, n) == UNION {[1..m -> S] : m \in 0..n}

\* labels given to normaliza_col: every text of at most MaxLen characters over
\* an upper-case letter, a lower-case letter and three kinds of whitespace,
\* and a number (a label that is not text)
NormChars == {"A", "b", " ", "\n", "\t"}
NormInputs == {Str(s) : s \in SeqsUpTo(NormChars, MaxLen)} \cup {Num(2024)}

H_Fecha == <<"F", "e", "c", "h", "a">>
H_FECHA_sp == <<" ", "F", "E", "C", "H", "A", " ">>
H_Fecha2024 == <<"F", "e", "c", "h", "a", "2", "0", "2", "4">>
H_Gasolina_Regular == <<"G", "a", "s", "o", "l", "i", "n", "a", " ", " ", "R", "e", "g", "u", "l", "a", "r">>
H_Gasolina_Superior == <<"G", "a", "s", "o", "l", "i", "n", "a", "\n", "S", "u", "p", "e", "r", "i", "o", "r">>
H_gasolina_super_95 == <<"g", "a", "s", "o", "l", "i", "n", "a", " ", "s", "u", "p", "e", "r", " ", "9", "5">>
H_Diesel_alto == <<"D", "i", "e", "s", "e", "l", " ", "a", "l", "t", "o", " ", "a", "z", "u", "f", "r", "e">>
H_Diesel_bajo == <<"D", "i", "e", "s", "e", "l", " ", "b", "a", "j", "o", " ", "a", "z", "u", "f", "r", "e">>
H_Diesel_ultra == <<"D", "i", "e", "s", "e", "l", " ", "u", "l", "t", "r", "a", " ", "b", "a", "j", "o", " ", "a", "z", "u", "f", "r", "e">>
T_Total == <<"T", "o", "t", "a", "l">>
T_2024_02 == <<"2", "0", "2", "4", "-", "0", "2">>

\* the months of the model: January, February and March 2024
D1 == 12 * 2024
D2 == D1 + 1
D3 == D1 + 2

\* raw tables given to detecta_header: at most MaxRawRows rows of two cells
RawCells == {Str(H_Fecha), Str(H_FECHA_sp), Str(H_Fecha2024), Str(T_Total), NaN}
RawRows == {<<a, b>> : a \in RawCells, b \in RawCells}
RawTables == SeqsUpTo(RawRows, MaxRawRows)

\* the cells that hold the word "fecha" whatever its case and the blanks around it
FechaCells == {Str(H_Fecha), Str(H_FECHA_sp)}

\* header family: every selection of these columns, left to right in this
\* order, over one data row; h is the header cell, v the cell below it
HeaderCols ==
    << [h |-> Str(H_Diesel_alto), v |-> Num(40)],
       [h |-> Str(H_Fecha), v |-> Date(D1)],
       [h |-> Str(H_Gasolina_Superior), v |-> Num(30)],
       [h |-> Str(H_Gasolina_Regular), v |-> Num(20)],
       [h |-> Str(H_gasolina_super_95), v |-> Num(95)],
       [h |-> Str(H_Diesel_bajo), v |-> Num(50)],
       [h |-> Str(H_Diesel_ultra), v |-> Num(60)],
       [h |-> Num(2024), v |-> Num(70)],
       [h |-> Str(H_FECHA_sp), v |-> Date(D2)] >>

RECURSIVE pick(_, _)
pick(S, j) ==
    IF j > Len(HeaderCols) THEN <<>>
    ELSE (IF j \in S THEN <<HeaderCols[j]>> ELSE <<>>) \o pick(S, j + 1)

HeaderSheets ==
    {LET c == pick(S, 1)
     IN  << [j \in 1..Len(c) |-> c[j].h], [j \in 1..Len(c) |-> c[j].v] >>
     : S \in (SUBSET (1..Len(HeaderCols))) \ {{}}}

\* row family: a header that satisfies both cleaners, under an optional banner
\* row, over at most MaxRows data rows
FullHeader ==
    <<Str(H_Fecha), Str(H_Gasolina_Regular), Str(H_Gasolina_Superior),
      Str(H_Diesel_alto), Str(H_Diesel_bajo), Str(H_Diesel_ultra)>>

Banner == <<Str(T_Total), NaN, NaN, NaN, NaN, NaN>>

DateCells == {Date(D1), Str(T_2024_02), Str(T_Total), NaN}

ValuePairs ==
    { <<Num(5), Str(<<"-", "-">>)>>,
      <<NaN, NaN>>,
      <<Str(<<"-", "-", "3">>), Num(2)>>,
      <<Str(<<"1", ",", "2", " ", "3">>), Str(<<"n", "/", "a">>)>> }

\* the value cells of a row: regular, superior, diesel alto, bajo, ultra bajo
DataRows == {<<d, p[1], p[2], p[1], p[1], p[2]>> : d \in DateCells, p \in ValuePairs}

RowSheets ==
    {<<FullHeader>> \o rows : rows \in SeqsUpTo(DataRows, MaxRows)}
    \cup {<<Banner, FullHeader>> \o rows : rows \in SeqsUpTo(DataRows, 1)}

Sheets == HeaderSheets \cup RowSheets

\* sheets of the workbook given to excel_a_csv.main: a good header over at
\* most MaxRows rows whose value cells are all numbers or all "--", a header
\* without diesel, and a sheet without header
MainHeader ==
    <<Str(H_Fecha), Str(H_Gasolina_Regular), Str(H_Gasolina_Superior), Str(H_Diesel_alto)>>

MainDateCells == {Date(D1), Date(D2), Date(D3), Str(T_Total)}

MainValues == {Num(8), Str(<<"-", "-">>)}

MainSheets ==
    {<<MainHeader>> \o [i \in 1..Len(ds) |-> <<ds[i], v, v, v>>]
        : ds \in SeqsUpTo(MainDateCells, MaxRows), v \in MainValues}
    \cup { << <<Str(H_Fecha), Str(H_Gasolina_Regular), Str(H_Gasolina_Superior)>>,
              <<Date(D1), Num(8), Num(8)>> >>,
           << <<Str(T_Total), NaN, NaN, NaN>> >> }

----------------------------------------------------------------------------
(* Specifications *)

IdleNorm == col = None /\ norm_out = <<>>
IdleHeader == raw = <<>> /\ header_row = [kind |-> "none", i |-> -1]
IdleClean == sheet = <<>> /\ script = "none" /\ res = NotRun
IdleMain == pc = "idle" /\ imp = NotRun /\ con = NotRun /\ combined = <<>> /\ files = <<>>

normVars == <<col, norm_out>>
headerVars == <<raw, header_row>>
cleanVars == <<sheet, script, res>>
mainVars == <<pc, imp, con, combined, files>>

(* normaliza_col applied to a label, and again to its own result *)

InitNorm == col \in NormInputs /\ norm_out = <<>> /\ IdleHeader /\ IdleClean /\ IdleMain

Normaliza ==
    /\ Len(norm_out) < 2
    /\ norm_out' = Append(norm_out,
                          normaliza_col(IF norm_out = <<>> THEN col ELSE norm_out[Len(norm_out)]))
    /\ UNCHANGED <<col, headerVars, cleanVars, mainVars>>

NextNorm == Normaliza

SpecNorm == InitNorm /\ [][NextNorm]_vars

(* detecta_header applied to a raw table *)

InitHeader ==
    /\ raw \in RawTables
    /\ header_row = [kind |-> "none", i |-> -1]
    /\ IdleNorm /\ IdleClean /\ IdleMain

DetectaHeader ==
    /\ header_row.kind = "none"
    /\ header_row' = detecta_header(raw)
    /\ UNCHANGED <<raw, normVars, cleanVars, mainVars>>

NextHeader == DetectaHeader

SpecHeader == InitHeader /\ [][NextHeader]_vars

(* one call of a cleaner on a sheet *)

InitClean ==
    /\ sheet \in Sheets
    /\ script = "none"
    /\ res = NotRun
    /\ IdleNorm /\ IdleHeader /\ IdleMain

LimpiaHoja ==
    /\ script = "none"
    /\ script' = "excel_a_csv"
    /\ res' \in carga_y_limpia_hoja(sheet)
    /\ UNCHANGED <<sheet, normVars, headerVars, mainVars>>

LimpiaImportacion ==
    /\ script = "none"
    /\ script' = "actualiza_datos_2025"
    /\ res' \in carga_y_limpia_importacion(sheet)
    /\ UNCHANGED <<sheet, normVars, headerVars, mainVars>>

NextClean == LimpiaHoja \/ LimpiaImportacion

SpecClean == InitClean /\ [][NextClean]_vars

(* excel_a_csv.main *)

F_importacion == "importacion_combustibles.csv"
F_consumo == "consumo_combustibles.csv"
F_combinado == "Series_de_Tiempo_Combustibles.csv"

Init ==
    /\ pc = "clean_imp"
    /\ imp = NotRun
    /\ con = NotRun
    /\ combined = <<>>
    /\ files = <<>>
    /\ IdleNorm /\ IdleHeader /\ IdleClean

\* imp = carga_y_limpia_hoja(xls, "IMPORTACION"); an exception ends the run
CargaImportacion ==
    /\ pc = "clean_imp"
    /\ \E sh \in MainSheets : imp' \in carga_y_limpia_hoja(sh)
    /\ pc' = IF imp'.kind = "ok" THEN "clean_con" ELSE "failed"
    /\ UNCHANGED <<con, combined, files, normVars, headerVars, cleanVars>>

\* a run that goes on after CONSUMO failed to clean
CargaConsumo_sigue ==
    /\ pc = "clean_con"
    /\ \E sh \in MainSheets : con' \in carga_y_limpia_hoja(sh)
    /\ pc' = "write_imp"
    /\ UNCHANGED <<imp, combined, files, normVars, headerVars, cleanVars>>

\* con = carga_y_limpia_hoja(xls, "CONSUMO"); an exception ends the run
CargaConsumo ==
    /\ pc = "clean_con"
    /\ \E sh \in MainSheets : con' \in carga_y_limpia_hoja(sh)
    /\ pc' = IF con'.kind = "ok" THEN "write_imp" ELSE "failed"
    /\ UNCHANGED <<imp, combined, files, normVars, headerVars, cleanVars>>

\* imp.to_csv(imp_out, index=False)
ExportaImportacion ==
    /\ pc = "write_imp"
    /\ files' = Append(files, F_importacion)
    /\ pc' = "write_con"
    /\ UNCHANGED <<imp, con, combined, normVars, headerVars, cleanVars>>

\* con.to_csv(con_out, index=False)
ExportaConsumo ==
    /\ pc = "write_con"
    /\ files' = Append(files, F_consumo)
    /\ pc' = "merge"
    /\ UNCHANGED <<imp, con, combined, normVars, headerVars, cleanVars>>

\* combined = pd.merge(imp.rename(...), con.rename(...), on="fecha",
\*                     how="outer").sort_values("fecha")
Combina ==
    /\ pc = "merge"
    /\ combined' \in sort_values(
           merge_outer(rename_origin(imp, Regular_Imp, Superior_Imp, Diesel_Imp),
                       rename_origin(con, Regular_Con, Superior_Con, Diesel_Con)).rows)
    /\ pc' = "write_comb"
    /\ UNCHANGED <<imp, con, files, normVars, headerVars, cleanVars>>

\* combined.to_csv(comb_out, index=False)
ExportaCombinado ==
    /\ pc = "write_comb"
    /\ files' = Append(files, F_combinado)
    /\ pc' = "done"
    /\ UNCHANGED <<imp, con, combined, normVars, headerVars, cleanVars>>

Next ==
    \/ CargaImportacion
    \/ CargaConsumo
    \/ ExportaImportacion
    \/ ExportaConsumo
    \/ Combina
    \/ ExportaCombinado

Spec == Init /\ [][Next]_vars

----------------------------------------------------------------------------
(* What the inputs mean, written down by hand and not computed by the model's *)
(* operators: which cells are the word "fecha", which header cell stands for  *)
(* which required label, and what each data cell is worth                     *)

Range(s) == {s[i] : i \in 1..Len(s)}
Count(s, x) == Cardinality({i \in 1..Len(s) : s[i] = x})

HasFecha(row) == \E j \in 1..Len(row) : row[j] \in FechaCells
FechaRows(t) == {i \in 1..Len(t) : HasFecha(t[i])}
FirstFechaRow(t) == CHOOSE i \in FechaRows(t) : \A k \in FechaRows(t) : i <= k

SrcFecha == FechaCells
SrcRegular == {Str(H_Gasolina_Regular)}
SrcSuperior == {Str(H_Gasolina_Superior)}
SrcSuperiorFuzzy == {Str(H_Gasolina_Superior), Str(H_gasolina_super_95)}
SrcAlto == {Str(H_Diesel_alto)}
SrcBajo == {Str(H_Diesel_bajo)}
SrcUltra == {Str(H_Diesel_ultra)}

\* the header cells that stand for each required label of the cleaner that ran
Sources ==
    IF script = "excel_a_csv"
    THEN <<SrcFecha, SrcRegular, SrcSuperiorFuzzy, SrcAlto>>
    ELSE <<SrcFecha, SrcRegular, SrcSuperior, SrcBajo, SrcUltra>>

Requeridas == IF script = "excel_a_csv" THEN requeridas_hoja ELSE requeridas_importacion

HeaderOf(sh) == sh[FirstFechaRow(sh)]
DataOf(sh) == SubSeq(sh, FirstFechaRow(sh) + 1, Len(sh))
PosIn(sh, S) == CHOOSE j \in 1..Len(HeaderOf(sh)) : HeaderOf(sh)[j] \in S
Absent(sh) == {Requeridas[q] : q \in {q \in 1..Len(Requeridas) : Range(HeaderOf(sh)) \cap Sources[q] = {}}}
NonTextLabel(sh) == \E j \in 1..Len(HeaderOf(sh)) : HeaderOf(sh)[j].k # "str"

ExpectedDate(c) ==
    CASE c.k = "date" -> c
      [] c = Str(T_2024_02) -> Date(D2)
      [] OTHER -> NaT

ExpectedValue(c) ==
    CASE c.k = "num" -> c
      [] c = Str(<<"1", ",", "2", " ", "3">>) -> Num(123)
      [] c = Str(<<"-", "-", "3">>) -> Num(3)
      [] OTHER -> NaN

ValidRows(sh) ==
    {i \in 1..Len(DataOf(sh)) : ExpectedDate(DataOf(sh)[i][PosIn(sh, SrcFecha)]).k = "date"}

\* the date and the first two value columns a valid data row must give
ExpectedLeft(sh, i) ==
    <<ExpectedDate(DataOf(sh)[i][PosIn(sh, SrcFecha)]),
      ExpectedValue(DataOf(sh)[i][PosIn(sh, Sources[2])]),
      ExpectedValue(DataOf(sh)[i][PosIn(sh, Sources[3])])>>

Zero(v) == IF v.k = "num" THEN v.n ELSE 0

\* the whole row a valid data row must give
ExpectedRow(sh, i) ==
    ExpectedLeft(sh, i) \o
    (IF script = "excel_a_csv"
     THEN <<ExpectedValue(DataOf(sh)[i][PosIn(sh, SrcAlto)])>>
     ELSE <<Num(Zero(ExpectedValue(DataOf(sh)[i][PosIn(sh, SrcBajo)]))
                + Zero(ExpectedValue(DataOf(sh)[i][PosIn(sh, SrcUltra)])))>>)

Ascending(rows) == \A i \in 1..(Len(rows) - 1) : rows[i][1].n <= rows[i + 1][1].n
StrictlyAscending(rows) == \A i \in 1..(Len(rows) - 1) : rows[i][1].n < rows[i + 1][1].n

----------------------------------------------------------------------------
(* Claims *)

\* C1: detecta_header returns the (zero-based) index of the topmost row that
\* has a cell reading "fecha" once trimmed and lower-cased ("Fecha" and
\* " FECHA " do, "Fecha2024" does not), and it fails with the
\* header-not-found error, with no index, exactly when no row has such a cell.
C1_TopmostFechaRow ==
    header_row.kind # "none" =>
        /\ FechaRows(raw) = {} <=> header_row = HeaderNotFound
        /\ FechaRows(raw) # {} => header_row = Ok(FirstFechaRow(raw) - 1)

\* C1 witness: the first row only has "Fecha2024" and the second row matches
C1_Witness ==
    /\ header_row = Ok(1)
    /\ raw[1] = <<Str(H_Fecha2024), Str(T_Total)>>
    /\ raw[2] = <<NaN, Str(H_FECHA_sp)>>

\* C2 as stated: once the header row is found, if required labels are absent
\* from the columns (after normalization, and fuzzy renaming in excel_a_csv)
\* the cleaner fails with the missing-columns error listing exactly the absent
\* labels, and it does not raise that error when none is absent.
C2_MissingColumnsExact ==
    (script # "none" /\ FechaRows(sheet) # {}) =>
        /\ Absent(sheet) # {} =>
              /\ res.kind = "MissingColumns"
              /\ Range(res.faltantes) = Absent(sheet)
              /\ Len(res.faltantes) = Cardinality(Absent(sheet))
        /\ Absent(sheet) = {} => res.kind # "MissingColumns"

\* C2 where the check of the required columns is reached (in excel_a_csv the
\* renaming loop ends only if every label is text): the same statement
C2_MissingColumnsExact_CheckReached ==
    (script # "none" /\ FechaRows(sheet) # {}
        /\ (script = "excel_a_csv" => ~NonTextLabel(sheet))) =>
        /\ Absent(sheet) # {} =>
              /\ res.kind = "MissingColumns"
              /\ Range(res.faltantes) = Absent(sheet)
              /\ Len(res.faltantes) = Cardinality(Absent(sheet))
        /\ Absent(sheet) = {} => res.kind # "MissingColumns"

\* C3 as stated: every table a cleaner returns is strictly ordered by
\* ascending date, whatever the sheet.
C3_StrictlyAscending ==
    res.kind = "ok" => StrictlyAscending(res.rows)

\* C3 amended: every table a cleaner returns has one row per data row with a
\* valid date and is ordered by ascending date, consecutive rows having equal
\* dates only where the sheet repeats a date; the order is strict when the
\* valid dates of the sheet are all different.
C3_AscendingOneRowPerValidRow ==
    res.kind = "ok" =>
        /\ Len(res.rows) = Cardinality(ValidRows(sheet))
        /\ Ascending(res.rows)
        /\ (\A i, k \in ValidRows(sheet) :
               i # k => ExpectedLeft(sheet, i)[1] # ExpectedLeft(sheet, k)[1])
           => StrictlyAscending(res.rows)

\* C3 witness: a sheet with February before January, and a returned table
\* of two rows in the other order
C3_Witness ==
    /\ res.kind = "ok"
    /\ Len(DataOf(sheet)) = 2
    /\ DataOf(sheet)[1][1] = Str(T_2024_02)
    /\ DataOf(sheet)[2][1] = Date(D1)
    /\ Len(res.rows) = 2
    /\ res.rows[1][1] = Date(D1)
    /\ res.rows[2][1] = Date(D2)

\* C4: a data row is dropped exactly when its date does not parse; a row with
\* a valid date is kept, its value cells that do not parse after removing
\* commas, spaces and "--" become missing values and the others numbers, so
\* the table has as many rows as there are data rows with a valid date.
C4_RowsKeptIffDateValid ==
    res.kind = "ok" =>
        /\ Len(res.rows) = Cardinality(ValidRows(sheet))
        /\ \A i \in 1..Len(res.rows) :
              /\ res.rows[i][1].k = "date"
              /\ \A j \in 2..Len(res.rows[i]) : res.rows[i][j].k \in {"num", "nan"}
        /\ \A r \in {SubSeq(res.rows[i], 1, 3) : i \in 1..Len(res.rows)}
                    \cup {ExpectedLeft(sheet, i) : i \in ValidRows(sheet)} :
              Cardinality({i \in 1..Len(res.rows) : SubSeq(res.rows[i], 1, 3) = r})
                  = Cardinality({i \in ValidRows(sheet) : ExpectedLeft(sheet, i) = r})

\* C4 witness: of two data rows the one without date is gone, and the one kept
\* has the number 123 read from "1,2 3" and a missing value read from "n/a"
C4_Witness ==
    /\ res.kind = "ok"
    /\ Len(DataOf(sheet)) = 2
    /\ DataOf(sheet)[1][1] = Str(T_Total)
    /\ DataOf(sheet)[2][1] = Date(D1)
    /\ DataOf(sheet)[2][2] = Str(<<"1", ",", "2", " ", "3">>)
    /\ DataOf(sheet)[2][3] = Str(<<"n", "/", "a">>)
    /\ script = "excel_a_csv"
    /\ res.rows = << <<Date(D1), Num(123), NaN, Num(123)>> >>

\* C4 second witness: a row whose value cell is the bare "--" is kept, with
\* that value missing
C4_Witness_Placeholder ==
    /\ res.kind = "ok"
    /\ Len(DataOf(sheet)) = 1
    /\ DataOf(sheet)[1][1] = Date(D1)
    /\ DataOf(sheet)[1][3] = Str(<<"-", "-">>)
    /\ Len(res.rows) = 1
    /\ res.rows[1][3] = NaN

\* C6: in the update-2025 cleaner the columns are fecha, Regular_Imp,
\* Superior_Imp, Diesel_Imp, and Diesel_Imp of every row is the sum of the
\* row's low-sulfur and ultra-low-sulfur diesel with a missing value counted
\* as zero, so it is never missing.
C6_DieselTotal ==
    (script = "actualiza_datos_2025" /\ res.kind = "ok") =>
        /\ res.columns = <<Str(L_fecha), Regular_Imp, Superior_Imp, Diesel_Imp>>
        /\ \A i \in 1..Len(res.rows) : Len(res.rows[i]) = 4 /\ res.rows[i][4].k = "num"
        /\ Len(res.rows) = Cardinality(ValidRows(sheet))
        /\ \A r \in Range(res.rows) \cup {ExpectedRow(sheet, i) : i \in ValidRows(sheet)} :
              Count(res.rows, r)
                  = Cardinality({i \in ValidRows(sheet) : ExpectedRow(sheet, i) = r})

\* C6 witness: the rows (5, missing) and (missing, missing) give 5 and 0
C6_Witness ==
    /\ script = "actualiza_datos_2025"
    /\ res.kind = "ok"
    /\ DataOf(sheet) = << <<Date(D1), Num(5), Str(<<"-", "-">>), Num(5), Num(5), Str(<<"-", "-">>)>>,
                          <<Str(T_2024_02), NaN, NaN, NaN, NaN, NaN>> >>
    /\ res.rows = << <<Date(D1), Num(5), NaN, Num(5)>>, <<Date(D2), NaN, NaN, Num(0)>> >>

\* C6 second witness: the row (3, 2) gives 5
C6_Witness_Sum ==
    /\ script = "actualiza_datos_2025"
    /\ res.kind = "ok"
    /\ DataOf(sheet) = << <<Date(D1), Str(<<"-", "-", "3">>), Num(2), Str(<<"-", "-", "3">>),
                            Str(<<"-", "-", "3">>), Num(2)>> >>
    /\ res.rows = << <<Date(D1), Num(3), Num(2), Num(5)>> >>

\* C7: normaliza_col applied to its own result returns it unchanged; the result
\* for a text has no line break, no whitespace at either end, no two
\* whitespace characters in a row and no upper-case letter, and a label that
\* is not text is returned as it is.
C7_Idempotent ==
    /\ Len(norm_out) = 2 => norm_out[2] = norm_out[1]
    /\ (Len(norm_out) >= 1 /\ col.k # "str") => norm_out[1] = col
    /\ (Len(norm_out) >= 1 /\ col.k = "str") =>
          LET s == norm_out[1].s
          IN  /\ norm_out[1].k = "str"
              /\ \A i \in 1..Len(s) : s[i] \notin {"\n", "\t"} /\ s[i] \notin Range(UpperCase)
              /\ s # <<>> => s[1] # " " /\ s[Len(s)] # " "
              /\ \A i \in 1..(Len(s) - 1) : ~(s[i] = " " /\ s[i + 1] = " ")

\* C7 witness: "A\nb" gives "a b", and "a b" gives itself
C7_Witness ==
    /\ Len(norm_out) = 2
    /\ col = Str(<<"A", "\n", "b">>)
    /\ norm_out[1] = Str(<<"a", " ", "b">>)

\* the check of the required columns of excel_a_csv passes on the sheet
CheckPasses(sh) ==
    /\ FechaRows(sh) # {}
    /\ ~NonTextLabel(sh)
    /\ faltantes(requeridas_hoja,
                 columnas_renombradas(columnas_normalizadas(sh, FirstFechaRow(sh) - 1))) = <<>>

\* the columns of df[requeridas] in excel_a_csv
RestrictedColumns(sh) ==
    select_columns(
        DataFrame(columnas_renombradas(columnas_normalizadas(sh, FirstFechaRow(sh) - 1)),
                  DataOf(sh)),
        requeridas_hoja).columns

\* C8 as stated: in excel_a_csv, whenever the check of the required columns
\* passes, the table restricted to the required columns has exactly fecha,
\* gasolina regular, gasolina superior, diesel alto azufre, once each and in
\* that order, also when two labels are renamed to the same canonical label.
C8_RestrictedToRequired ==
    (script = "excel_a_csv" /\ CheckPasses(sheet)) =>
        RestrictedColumns(sheet) = requeridas_hoja

\* C9 as stated: cleaning a sheet in excel_a_csv returns a table or fails with
\* header-not-found or missing-columns, and with nothing else, also when a
\* label of the header row is not text.
C9_OnlyStructuralErrors ==
    script = "excel_a_csv" => res.kind \in {"ok", "HeaderNotFound", "MissingColumns"}

(* excel_a_csv.main *)

Dates(t) == {t.rows[i][1] : i \in 1..Len(t.rows)}
RowsOn(rows, d) == {i \in 1..Len(rows) : rows[i][1] = d}
Merged == pc \in {"write_comb", "done"}

\* a merged row has no value from IMPORTACION / from CONSUMO
NoImp(r) == r[2] = NaN /\ r[3] = NaN /\ r[4] = NaN
NoCon(r) == r[5] = NaN /\ r[6] = NaN /\ r[7] = NaN

\* C5 as stated: the merged table has every date of either cleaned table
\* exactly once and no other date, is sorted by ascending date, and has
\* missing *_Imp values on a date only CONSUMO has and missing *_Con values on
\* a date only IMPORTACION has.
C5_EveryDateExactlyOnce ==
    Merged =>
        /\ {combined[i][1] : i \in 1..Len(combined)} = Dates(imp) \cup Dates(con)
        /\ \A d \in Dates(imp) \cup Dates(con) : Cardinality(RowsOn(combined, d)) = 1
        /\ Ascending(combined)
        /\ \A i \in 1..Len(combined) :
              /\ combined[i][1] \notin Dates(imp) => NoImp(combined[i])
              /\ combined[i][1] \notin Dates(con) => NoCon(combined[i])

\* C5 amended: the merged table has every date of either cleaned table and no
\* other date; a date that m rows of IMPORTACION and n rows of CONSUMO carry
\* has m * n rows if both have it, m or n rows if only one has it (so one row
\* when neither table repeats it); the rows are sorted by ascending date, a
\* row of a date only CONSUMO has holds a CONSUMO row and missing *_Imp
\* values, a row of a date only IMPORTACION has holds an IMPORTACION row and
\* missing *_Con values.
C5_OuterJoinOnDate ==
    Merged =>
        /\ {combined[i][1] : i \in 1..Len(combined)} = Dates(imp) \cup Dates(con)
        /\ \A d \in Dates(imp) \cup Dates(con) :
              LET m == Cardinality(RowsOn(imp.rows, d))
                  n == Cardinality(RowsOn(con.rows, d))
              IN  Cardinality(RowsOn(combined, d))
                      = IF m = 0 THEN n ELSE IF n = 0 THEN m ELSE m * n
        /\ Ascending(combined)
        /\ \A i \in 1..Len(combined) :
              /\ Len(combined[i]) = 7
              /\ combined[i][1] \notin Dates(imp) =>
                    /\ NoImp(combined[i])
                    /\ <<combined[i][1], combined[i][5], combined[i][6], combined[i][7]>>
                           \in Range(con.rows)
              /\ combined[i][1] \notin Dates(con) =>
                    /\ NoCon(combined[i])
                    /\ SubSeq(combined[i], 1, 4) \in Range(imp.rows)

\* C5 witness: IMPORTACION with January and February, CONSUMO with February
\* and March, merged into three rows
C5_Witness ==
    /\ pc = "done"
    /\ imp.rows = << <<Date(D1), Num(8), Num(8), Num(8)>>, <<Date(D2), Num(8), Num(8), Num(8)>> >>
    /\ con.rows = << <<Date(D2), Num(8), Num(8), Num(8)>>, <<Date(D3), Num(8), Num(8), Num(8)>> >>
    /\ combined = << <<Date(D1), Num(8), Num(8), Num(8), NaN, NaN, NaN>>,
                     <<Date(D2), Num(8), Num(8), Num(8), Num(8), Num(8), Num(8)>>,
                     <<Date(D3), NaN, NaN, NaN, Num(8), Num(8), Num(8)>> >>

IsPrefix(s, t) == Len(s) <= Len(t) /\ SubSeq(t, 1, Len(s)) = s

\* C10: no file is written before both sheets are cleaned; a run in which
\* cleaning a sheet fails ends with no file written; the two per-sheet files
\* are written before the merged file, and a run that ends well has written
\* the three.
C10_FilesOnlyAfterBothCleaned ==
    /\ files # <<>> => imp.kind = "ok" /\ con.kind = "ok"
    /\ (imp.kind \notin {"ok", "none"} \/ con.kind \notin {"ok", "none"}) =>
          pc = "failed" /\ files = <<>>
    /\ pc = "failed" => files = <<>>
    /\ IsPrefix(files, <<F_importacion, F_consumo, F_combinado>>)
    /\ pc = "done" => files = <<F_importacion, F_consumo, F_combinado>>

\* C10 witness: IMPORTACION was cleaned, CONSUMO lacks a column, nothing is
\* written
C10_Witness ==
    /\ pc = "failed"
    /\ imp.kind = "ok"
    /\ con.kind = "MissingColumns"
    /\ files = <<>>

====
